---- MODULE Spec2Model ----
(***************************************************************************)
(* lareferencia-botstats: log analysis and bot threat detection.           *)
(*                                                                         *)
(* Three specifications over one set of variables:                         *)
(*   SpecAnalyze  ThreatAnalyzer.analyze_log_file followed by              *)
(*                ThreatAnalyzer.identify_threats (threat_analyzer.py);    *)
(*   Spec         main() of stats.py from the call of analyze_log_file:    *)
(*                analysis, strategy scoring, /16 supernet blocking,       *)
(*                individual top-N blocking and the report;                *)
(*   SpecReader   the generator _read_lines_reverse (threat_analyzer.py).  *)
(* Spec runs main on logs of suspicious addresses, read forwards;          *)
(* SpecAnalyze runs the analysis on arbitrary short logs in both           *)
(* directions; SpecReader runs the reverse reader _read_lines_reverse on   *)
(* arbitrary short files with small block sizes.                           *)
(***************************************************************************)
EXTENDS Integers, Naturals, Sequences, FiniteSets, TLC

VARIABLES
    pc,                            \* position in the run
    rpm_threshold,                 \* ThreatAnalyzer.rpm_threshold
    whitelist,                     \* ThreatAnalyzer.whitelist
    log_lines,                     \* the log file, a sequence of lines
    start_date,                    \* start_date argument of analyze_log_file
    ip_data,                       \* ThreatAnalyzer.ip_data, in insertion order
    total_processed,               \* return value of analyze_log_file
    threats,                       \* unified_threats / main's threats list
    blockable_threats,             \* main: threats the strategy marked
    supernets_to_block,            \* main: /16 -> contained blockable /24 threats
    blocked_subnets_via_supernet,  \* main: /24s covered by a blocked /16
    blocked_targets_count,         \* main: accepted submissions
    submitted,                     \* calls received by the rule collaborator
    idx,                           \* loop position of the two blocking loops
    top,                           \* args.top
    block,                         \* args.block
    file_bytes,                    \* _read_lines_reverse: the bytes of the file
    buf_size,                      \* _read_lines_reverse: buf_size
    remaining_size,                \* _read_lines_reverse: remaining_size
    offset,                        \* _read_lines_reverse: offset
    segment,                       \* _read_lines_reverse: segment
    yielded                        \* lines the generator has yielded so far

vars == <<pc, rpm_threshold, whitelist, log_lines, start_date, ip_data, total_processed,
          threats, blockable_threats, supernets_to_block,
          blocked_subnets_via_supernet, blocked_targets_count, submitted,
          idx, top, block,
          file_bytes, buf_size, remaining_size, offset, segment, yielded>>

readerVars == <<file_bytes, buf_size, remaining_size, offset, segment, yielded>>
analyzeVars == <<log_lines, start_date, ip_data, total_processed>>
blockVars == <<blockable_threats, supernets_to_block,
               blocked_subnets_via_supernet, blocked_targets_count,
               submitted, idx, top, block>>

-----------------------------------------------------------------------------
(* Bounds of the model.                                                    *)

\* The hosts of each prefix are numbered 1..MaxHost.
MaxHost == 3
\* Suspicious addresses per prefix, and in all, when identify_threats runs.
MaxMembers == 2
MaxIps == 5
\* Prefixes with suspicious addresses, the ThreatGroups of a run of main.
MaxGroups == 3
\* Largest value of --top.
MaxTop == 2
\* Largest strategy score.
MaxScore == 1
\* Value of --block-threshold, the base floor on total requests.
BlockThreshold == 2

\* ThreatAnalyzer.__init__: rpm_threshold=100; main never overrides it.
DefaultRpmThreshold == 100

None == [v |-> 0, len |-> 0, a |-> 0, b |-> 0, h |-> 0]

\* _read_lines_reverse(filename, buf_size=8192)
DefaultBufSize == 8192
\* segment = None
NoSegment == <<"None">>

\* The reverse reader before it is called.
ReaderIdle ==
    /\ file_bytes = <<>>
    /\ buf_size = DefaultBufSize
    /\ remaining_size = 0
    /\ offset = 0
    /\ segment = NoSegment
    /\ yielded = <<>>

-----------------------------------------------------------------------------
(* Addresses and networks (module ipaddress). An address is a host within  *)
(* a prefix; a network has h = 0 and a prefix length.                      *)

IPv4Address(a, b, h) == [v |-> 4, len |-> 32, a |-> a, b |-> b, h |-> h]
IPv6Address(n, h) == [v |-> 6, len |-> 128, a |-> 0, b |-> n, h |-> h]
IPv4Network24(a, b) == [v |-> 4, len |-> 24, a |-> a, b |-> b, h |-> 0]
IPv4Network16(a) == [v |-> 4, len |-> 16, a |-> a, b |-> 0, h |-> 0]
IPv6Network64(n) == [v |-> 6, len |-> 64, a |-> 0, b |-> n, h |-> 0]
\* A source field that is no IP address (ipaddress raises ValueError on it).
InvalidIp == [v |-> 1, len |-> 0, a |-> 0, b |-> 0, h |-> 1]

\* The prefixes of the model's addresses, in a fixed order: three /24s of one
\* /16, one /24 of another /16 and one IPv6 /64.
Prefixes ==
    <<IPv4Network24(0, 0), IPv4Network24(0, 1), IPv4Network24(0, 2),
      IPv4Network24(1, 0), IPv6Network64(0)>>

\* Host h of a prefix.
HostOf(prefix, h) ==
    IF prefix.v = 4 THEN IPv4Address(prefix.a, prefix.b, h) ELSE IPv6Address(prefix.b, h)

Addresses == {HostOf(Prefixes[k], h) : k \in DOMAIN Prefixes, h \in 1..MaxHost}

\* isinstance(x, ipaddress.IPv4Network)
isinstance_IPv4Network(x) == x.v = 4 /\ x.len < 32

\* subnet.supernet(new_prefix=16) of an IPv4 network.
supernet16(subnet) == IPv4Network16(subnet.a)

\* The prefix of the given length that holds address or network x.
Truncate(x, len) ==
    CASE x.len = len -> x
      [] x.v = 4 /\ len = 16 -> IPv4Network16(x.a)
      [] x.v = 4 /\ len = 24 -> IPv4Network24(x.a, x.b)
      [] x.v = 6 /\ len = 64 -> IPv6Network64(x.b)
      [] OTHER -> None

\* Target (an address or a network) covers address x.
Covers(target, x) ==
    /\ target.v = x.v
    /\ target.len <= x.len
    /\ Truncate(x, target.len) = target

\* log_parser.get_subnet: /24 for IPv4, /64 for IPv6, None for anything else.
get_subnet(ip) ==
    CASE ip.v = 4 /\ ip.len = 32 -> IPv4Network24(ip.a, ip.b)
      [] ip.v = 6 /\ ip.len = 128 -> IPv6Network64(ip.b)
      [] OTHER -> None

\* log_parser.is_ip_in_whitelist: exact match or contained in a listed prefix.
is_ip_in_whitelist(ip, wl) == \E w \in wl : Covers(w, ip)

-----------------------------------------------------------------------------
(* ThreatAnalyzer.identify_threats.                                        *)

Last(s) == s[Len(s)]
Front(s) == SubSeq(s, 1, Len(s) - 1)

RECURSIVE InsertAsc(_, _)
InsertAsc(s, x) ==
    IF s = <<>> THEN <<x>>
    ELSE IF Head(s) <= x THEN <<Head(s)>> \o InsertAsc(Tail(s), x)
    ELSE <<x>> \o s

\* sorted(info['times'])
RECURSIVE sorted(_)
sorted(times) ==
    IF times = <<>> THEN <<>> ELSE InsertAsc(sorted(Front(times)), Last(times))

\* Insert x into s, which is sorted descending by key, behind every element
\* whose key is not smaller: Python's stable sort with reverse=True.
RECURSIVE InsertByKey(_, _, _)
InsertByKey(s, x, key) ==
    IF s = <<>> THEN <<x>>
    ELSE IF Head(s)[key] >= x[key] THEN <<Head(s)>> \o InsertByKey(Tail(s), x, key)
    ELSE <<x>> \o s

\* sorted(seq, key=lambda x: x[key], reverse=True)
RECURSIVE SortDescBy(_, _)
SortDescBy(s, key) ==
    IF s = <<>> THEN <<>> ELSE InsertByKey(SortDescBy(Front(s), key), Last(s), key)

\* time_span of an address: seconds between its first and last request.
time_span(times) ==
    IF Len(times) >= 2 THEN Last(sorted(times)) - Head(sorted(times)) ELSE 0

\* rpm of an address as a fraction <<numerator, denominator>>:
\* total_requests / (time_span / 60), and 0 without two requests or a span.
rpm(times) ==
    IF Len(times) >= 2 /\ time_span(times) > 0
    THEN <<Len(times) * 60, time_span(times)>>
    ELSE <<0, 1>>

IsSuspiciousMutant(times, threshold) == rpm(times)[1] >= threshold * rpm(times)[2]

\* rpm > self.rpm_threshold
is_suspicious(times, threshold) == rpm(times)[1] > threshold * rpm(times)[2]

\* log_parser.calculate_danger_score(rpm, total_requests, False): a fixed
\* function that grows with the rate and with the number of requests.
calculate_danger_score(r, total_requests) == (r[1] \div r[2]) + total_requests

ip_info(entry) ==
    [ip |-> entry.ip,
     rpm |-> rpm(entry.times),
     total_requests |-> Len(entry.times),
     time_span |-> time_span(entry.times),
     danger_score |-> calculate_danger_score(rpm(entry.times), Len(entry.times))]

\* subnet_data[subnet].append(ip_info) on an insertion-ordered mapping, kept
\* as a sequence of [subnet, ip_infos].
RECURSIVE AppendTo(_, _, _)
AppendTo(sd, subnet, info) ==
    IF sd = <<>> THEN <<[subnet |-> subnet, ip_infos |-> <<info>>]>>
    ELSE IF Head(sd).subnet = subnet
         THEN <<[Head(sd) EXCEPT !.ip_infos = Append(@, info)]>> \o Tail(sd)
         ELSE <<Head(sd)>> \o AppendTo(Tail(sd), subnet, info)

\* First step of identify_threats: the suspicious addresses by subnet.
RECURSIVE subnet_data(_, _)
subnet_data(ipd, threshold) ==
    IF ipd = <<>> THEN <<>>
    ELSE LET rest == subnet_data(Front(ipd), threshold)
             e == Last(ipd)
         IN IF Len(e.times) = 0 THEN rest
            ELSE IF is_suspicious(e.times, threshold) /\ get_subnet(e.ip) # None
                 THEN AppendTo(rest, get_subnet(e.ip), ip_info(e))
                 ELSE rest

RECURSIVE SumOf(_, _)
SumOf(s, key) == IF s = <<>> THEN 0 ELSE Head(s)[key] + SumOf(Tail(s), key)

\* The keys a threat dict carries, by its type.
SubnetKeys == {"type", "id", "danger_score", "total_requests", "ip_count",
               "details", "strategy_score", "should_block", "block_reason"}
IpKeys == {"type", "id", "danger_score", "rpm", "total_requests", "time_span",
           "has_suspicious_ua", "suspicious_ua", "is_suspicious_by_rpm",
           "strategy_score", "should_block", "block_reason"}
HasKey(threat, key) ==
    IF threat.type = "subnet" THEN key \in SubnetKeys ELSE key \in IpKeys

\* One threat dict. Fields that are no key of its type hold a filler that
\* the program cannot read (HasKey is false for them).
\* Lines 240-247: the threat of a subnet.
SubnetThreat(entry) ==
    [type |-> "subnet",
     id |-> entry.subnet,
     danger_score |-> SumOf(entry.ip_infos, "danger_score"),
     total_requests |-> SumOf(entry.ip_infos, "total_requests"),
     ip_count |-> Len(entry.ip_infos),
     details |-> SortDescBy(entry.ip_infos, "danger_score"),
     rpm |-> <<0, 1>>,
     time_span |-> 0,
     strategy_score |-> 0,
     should_block |-> FALSE]

\* Lines 250-262: the threat of an individual IP; id is
\* ipaddress.ip_address(ip_info['ip']).
IpThreat(entry) ==
    [type |-> "ip",
     id |-> entry.ip_infos[1].ip,
     danger_score |-> entry.ip_infos[1].danger_score,
     total_requests |-> entry.ip_infos[1].total_requests,
     ip_count |-> 0,
     details |-> <<>>,
     rpm |-> entry.ip_infos[1].rpm,
     time_span |-> entry.ip_infos[1].time_span,
     strategy_score |-> 0,
     should_block |-> FALSE]

UnifiedThreatMutant(entry) == SubnetThreat(entry)

\* Lines 234-263: subnet_ip_count > 1 makes a subnet threat.
unified_threat(entry) ==
    IF Len(entry.ip_infos) > 1 THEN SubnetThreat(entry) ELSE IpThreat(entry)

\* Second step and the final sort of identify_threats.
unified_threats(sd) ==
    SortDescBy([k \in 1..Len(sd) |-> unified_threat(sd[k])], "danger_score")

identify_threats(ipd, threshold) == unified_threats(subnet_data(ipd, threshold))

-----------------------------------------------------------------------------
(* ThreatAnalyzer.analyze_log_file, as main calls it (lines 243-253).      *)

\* The seconds of the log timestamps.
LogTimes == 0..1
\* Lines of the log file.
MaxLines == 4

\* No start_date (None), without --time-window and --start-date.
NoStart == [given |-> FALSE, t |-> 0, aware |-> FALSE]
\* stats.py 201-212: the start instant main derives is made timezone-aware
\* (astimezone()) and converted to UTC.
start_date_utc(t) == [given |-> TRUE, t |-> t, aware |-> TRUE]
\* The start instants of the model: none, or the latest second of the log.
StartDates == {NoStart, start_date_utc(1)}

\* Whitelist files of the model: none, one address, one prefix.
Whitelists == {{}, {IPv4Address(0, 0, MaxHost)}, {IPv4Network24(0, 0)}}

\* Source addresses of the log lines of SpecAnalyze.
LogIps == {IPv4Address(0, 0, 1), IPv4Address(0, 0, MaxHost), InvalidIp}

\* A log line: one the parser accepts with a timestamp strptime accepts
\* ("ok"), one the parser rejects ("unparsed"), one whose timestamp strptime
\* rejects ("baddate").
OkLine(ip, t) == [kind |-> "ok", ip |-> ip, t |-> t]
UnparsedLine == [kind |-> "unparsed", ip |-> InvalidIp, t |-> 0]
BadDateLine == [kind |-> "baddate", ip |-> InvalidIp, t |-> 0]
Lines == {OkLine(ip, t) : ip \in LogIps, t \in LogTimes} \cup {UnparsedLine, BadDateLine}

RECURSIVE SeqsUpTo(_, _)
SeqsUpTo(S, n) ==
    IF n = 0 THEN {<<>>}
    ELSE LET prev == SeqsUpTo(S, n - 1)
         IN prev \cup {Append(q, x) : q \in {r \in prev : Len(r) = n - 1}, x \in S}

\* log_parser.parse_log_line(line) is None.
parse_fails(line) == line.kind = "unparsed"
\* datetime.strptime(dt_str, ...) raises ValueError.
strptime_fails(line) == line.kind = "baddate"

\* _read_lines_reverse on a file of decodable lines that end in a newline:
\* the lines from the last to the first.
ReversedLines(lines) == [k \in 1..Len(lines) |-> lines[Len(lines) + 1 - k]]

\* self.ip_data[ip]['times'].append(dt) on an insertion-ordered dict.
RECURSIVE AppendTime(_, _, _)
AppendTime(ipd, ip, t) ==
    IF ipd = <<>> THEN <<[ip |-> ip, times |-> <<t>>]>>
    ELSE IF Head(ipd).ip = ip
         THEN <<[Head(ipd) EXCEPT !.times = Append(@, t)]>> \o Tail(ipd)
         ELSE <<Head(ipd)>> \o AppendTime(Tail(ipd), ip, t)

Ingest(acc, line) ==
    [acc EXCEPT !.ip_data = AppendTime(@, line.ip, line.t),
                !.total_processed = @ + 1]

\* Line 135, dt < start_date: dt is naive (strptime without zone), so the
\* comparison with an aware start_date raises TypeError.
CompareRaises(start) == start.aware

\* Lines 122-146: the loop over the lines read backwards.
RECURSIVE reverse_scan(_, _, _, _)
reverse_scan(rl, start, wl, acc) ==
    IF rl = <<>> THEN acc
    ELSE LET line == Head(rl)
         IN IF parse_fails(line) \/ strptime_fails(line)
            THEN reverse_scan(Tail(rl), start, wl, acc)
            ELSE IF CompareRaises(start) THEN [acc EXCEPT !.error = "TypeError"]
            ELSE IF line.t < start.t THEN acc
            ELSE IF is_ip_in_whitelist(line.ip, wl)
                 THEN reverse_scan(Tail(rl), start, wl, acc)
                 ELSE reverse_scan(Tail(rl), start, wl, Ingest(acc, line))

\* Lines 150-170: the loop over the lines read forwards.
RECURSIVE forward_scan(_, _, _)
forward_scan(fl, wl, acc) ==
    IF fl = <<>> THEN acc
    ELSE LET line == Head(fl)
         IN IF parse_fails(line) \/ strptime_fails(line)
            THEN forward_scan(Tail(fl), wl, acc)
            ELSE IF is_ip_in_whitelist(line.ip, wl)
                 THEN forward_scan(Tail(fl), wl, acc)
                 ELSE forward_scan(Tail(fl), wl, Ingest(acc, line))

EmptyScan == [ip_data |-> <<>>, total_processed |-> 0, error |-> "none"]

\* Lines 117-180: `if start_date:` chooses the direction.
analyze_log_file(lines, start, wl) ==
    IF start.given
    THEN reverse_scan(ReversedLines(lines), start, wl, EmptyScan)
    ELSE forward_scan(lines, wl, EmptyScan)

InitAnalyze ==
    /\ pc = "start"
    /\ rpm_threshold \in {0, DefaultRpmThreshold}
    /\ whitelist \in Whitelists
    /\ log_lines \in SeqsUpTo(Lines, MaxLines)
    /\ start_date \in StartDates
    /\ ip_data = <<>>
    /\ total_processed = 0
    /\ threats = <<>>
    /\ top = 0
    /\ block = FALSE
    /\ blockable_threats = <<>>
    /\ supernets_to_block = <<>>
    /\ blocked_subnets_via_supernet = {}
    /\ blocked_targets_count = 0
    /\ submitted = <<>>
    /\ idx = 0
    /\ ReaderIdle

\* stats.py 243-250: an exception of analyze_log_file ends the run with
\* status 1, no processed entry ends it with status 0.
AnalyzeLogFile ==
    /\ pc = "start"
    /\ LET res == analyze_log_file(log_lines, start_date, whitelist)
       IN /\ ip_data' = res.ip_data
          /\ total_processed' = res.total_processed
          /\ pc' = IF res.error # "none" THEN "exit1"
                   ELSE IF res.total_processed <= 0 THEN "exit0"
                   ELSE "analyzed"
    /\ UNCHANGED <<rpm_threshold, whitelist, log_lines, start_date, threats>>
    /\ UNCHANGED readerVars
    /\ UNCHANGED blockVars

\* stats.py 253: threats = analyzer.identify_threats().
IdentifyThreats ==
    /\ pc = "analyzed"
    /\ threats' = identify_threats(ip_data, rpm_threshold)
    /\ pc' = "identified"
    /\ UNCHANGED <<rpm_threshold, whitelist>>
    /\ UNCHANGED readerVars
    /\ UNCHANGED analyzeVars
    /\ UNCHANGED blockVars

NextAnalyze == AnalyzeLogFile \/ IdentifyThreats

SpecAnalyze == InitAnalyze /\ [][NextAnalyze]_vars

-----------------------------------------------------------------------------
(* main() of stats.py, from the call of analyze_log_file (line 244).       *)

Range(s) == {s[k] : k \in DOMAIN s}
Min(x, y) == IF x <= y THEN x ELSE y

\* Request times of a suspicious address in Spec: 2 requests within 1 second.
SuspiciousTimes == <<0, 1>>

\* The addresses of ip_data, prefix by prefix: cnt[k] hosts of prefix k.
RECURSIVE IpsOf(_, _)
IpsOf(cnt, k) ==
    IF k = 0 THEN <<>>
    ELSE IpsOf(cnt, k - 1) \o [h \in 1..cnt[k] |-> HostOf(Prefixes[k], h)]

RECURSIVE SumTo(_, _)
SumTo(cnt, k) == IF k = 0 THEN 0 ELSE cnt[k] + SumTo(cnt, k - 1)

\* The member counts of the first k prefixes: at most MaxMembers suspicious
\* addresses in a prefix, at most MaxIps in all, in at most MaxGroups prefixes.
RECURSIVE MemberCounts(_)
MemberCounts(k) ==
    IF k = 0 THEN {<<>>}
    ELSE {c \in {Append(q, n) : q \in MemberCounts(k - 1), n \in 0..MaxMembers} :
             /\ SumTo(c, k) <= MaxIps
             /\ Cardinality({j \in 1..k : c[j] > 0}) <= MaxGroups}

\* A log in which each of the addresses sends one request at each of the
\* SuspiciousTimes, in order of time.
LogOf(ips) ==
    [k \in 1..(Len(SuspiciousTimes) * Len(ips)) |->
        OkLine(ips[((k - 1) % Len(ips)) + 1],
               SuspiciousTimes[((k - 1) \div Len(ips)) + 1])]

\* A log with a single request.
QuietLog == <<OkLine(HostOf(Prefixes[1], 1), 0)>>

\* The whitelists of Spec: none, or an address that sends no request.
MainWhitelists == {{}, {IPv4Address(0, 0, MaxHost)}}

\* The logs of Spec: some suspicious addresses in each prefix, or a single
\* request. main is called without --time-window and --start-date.
Init ==
    /\ pc = "start"
    /\ rpm_threshold = DefaultRpmThreshold
    /\ whitelist \in MainWhitelists
    /\ \/ \E cnt \in MemberCounts(Len(Prefixes)) :
             log_lines = LogOf(IpsOf(cnt, Len(Prefixes)))
       \/ log_lines = QuietLog
    /\ start_date = NoStart
    /\ top \in 0..MaxTop
    /\ block \in BOOLEAN
    /\ ip_data = <<>>
    /\ total_processed = 0
    /\ threats = <<>>
    /\ blockable_threats = <<>>
    /\ supernets_to_block = <<>>
    /\ blocked_subnets_via_supernet = {}
    /\ blocked_targets_count = 0
    /\ submitted = <<>>
    /\ idx = 0
    /\ ReaderIdle

NoThreatsMutant ==
    /\ pc = "identified"
    /\ threats = <<>>
    /\ pc' = "blocking"
    /\ UNCHANGED <<rpm_threshold, whitelist, threats>>
    /\ UNCHANGED readerVars
    /\ UNCHANGED analyzeVars
    /\ UNCHANGED blockVars

\* Lines 254-256: no threats, exit with status 0.
NoThreats ==
    /\ pc = "identified"
    /\ threats = <<>>
    /\ pc' = "exit0"
    /\ UNCHANGED <<rpm_threshold, whitelist, threats>>
    /\ UNCHANGED readerVars
    /\ UNCHANGED analyzeVars
    /\ UNCHANGED blockVars

\* strategy_instance.calculate_threat_score_and_block (strategies/ package):
\* any score, and a block decision that respects the base floor on total
\* requests.
StrategyResults(threat) ==
    {<<score, should_block>> \in (0..MaxScore) \X BOOLEAN :
        should_block => threat.total_requests >= BlockThreshold}

\* Lines 258-272: score every threat, collect the blockable ones in the
\* order of the unsorted list, then sort by strategy score.
ApplyStrategy ==
    /\ pc = "identified"
    /\ threats # <<>>
    /\ \E ev \in [1..Len(threats) -> (0..MaxScore) \X BOOLEAN] :
          /\ \A k \in 1..Len(threats) : ev[k] \in StrategyResults(threats[k])
          /\ LET scored == [k \in 1..Len(threats) |->
                              [threats[k] EXCEPT !.strategy_score = ev[k][1],
                                                 !.should_block = ev[k][2]]]
             IN /\ blockable_threats' = SelectSeq(scored, LAMBDA t : t.should_block)
                /\ threats' = SortDescBy(scored, "strategy_score")
    /\ pc' = "blocking"
    /\ UNCHANGED <<rpm_threshold, whitelist>>
    /\ UNCHANGED readerVars
    /\ UNCHANGED analyzeVars
    /\ UNCHANGED <<supernets_to_block, blocked_subnets_via_supernet,
                   blocked_targets_count, submitted, idx, top, block>>

\* Lines 372-373: --block not given.
BlockingDisabled ==
    /\ pc = "blocking"
    /\ ~block
    /\ pc' = "report"
    /\ UNCHANGED <<rpm_threshold, whitelist, threats>>
    /\ UNCHANGED readerVars
    /\ UNCHANGED analyzeVars
    /\ UNCHANGED blockVars

\* supernets_to_block[supernet].append(threat) on an insertion-ordered dict.
RECURSIVE AppendToSupernet(_, _, _)
AppendToSupernet(m, sn, threat) ==
    IF m = <<>> THEN <<[supernet |-> sn, contained |-> <<threat>>]>>
    ELSE IF Head(m).supernet = sn
         THEN <<[Head(m) EXCEPT !.contained = Append(@, threat)]>> \o Tail(m)
         ELSE <<Head(m)>> \o AppendToSupernet(Tail(m), sn, threat)

\* Lines 284-293: the blockable IPv4 /24 threats by their /16.
RECURSIVE GroupBySupernet(_)
GroupBySupernet(bt) ==
    IF bt = <<>> THEN <<>>
    ELSE LET rest == GroupBySupernet(Front(bt))
             threat == Last(bt)
         IN IF isinstance_IPv4Network(threat.id) /\ threat.id.len = 24
            THEN AppendToSupernet(rest, supernet16(threat.id), threat)
            ELSE rest

TopThreatsMutant == threats

\* threats[:args.top]
top_threats_to_consider == SubSeq(threats, 1, Min(top, Len(threats)))

AfterSupernets == IF top_threats_to_consider = <<>> THEN "report" ELSE "individual"

\* Lines 278-296: blocking enabled, build supernets_to_block.
GroupSupernets ==
    /\ pc = "blocking"
    /\ block
    /\ supernets_to_block' = GroupBySupernet(blockable_threats)
    /\ idx' = 1
    /\ pc' = IF GroupBySupernet(blockable_threats) = <<>> THEN AfterSupernets ELSE "supernets"
    /\ UNCHANGED <<rpm_threshold, whitelist, threats>>
    /\ UNCHANGED readerVars
    /\ UNCHANGED analyzeVars
    /\ UNCHANGED <<blockable_threats, blocked_subnets_via_supernet,
                   blocked_targets_count, submitted, top, block>>

\* Line 299: a /16 is blocked when it holds at least 2 blockable /24 threats.
QualifiesMutant(contained) == Len(contained) >= 1
QualifiesForSupernetBlock(contained) == Len(contained) >= 2

\* Lines 312-313 and 360-361: an accepted submission is counted.
CountAfterMutant(count, success) == count + 1
CountAfter(count, success) == IF success THEN count + 1 ELSE count

ContainedIds(contained) == {contained[k].id : k \in 1..Len(contained)}

\* Lines 312-318: a /16 the collaborator accepted covers its /24s.
CoveredAfterMutant(covered, contained, success) == covered
CoveredAfter(covered, contained, success) ==
    IF success THEN covered \cup ContainedIds(contained) ELSE covered

\* Lines 297-321: one iteration of the loop over supernets_to_block. The
\* collaborator (ufw_handler.UFWManager.block_target) answers true or false.
ProcessSupernet ==
    /\ pc = "supernets"
    /\ idx <= Len(supernets_to_block)
    /\ LET entry == supernets_to_block[idx]
       IN IF QualifiesForSupernetBlock(entry.contained)
          THEN \E success \in BOOLEAN :
                  /\ submitted' = Append(submitted,
                        [target |-> entry.supernet, success |-> success, step |-> "supernet"])
                  /\ blocked_targets_count' = CountAfter(blocked_targets_count, success)
                  /\ blocked_subnets_via_supernet' =
                        CoveredAfter(blocked_subnets_via_supernet, entry.contained, success)
          ELSE UNCHANGED <<submitted, blocked_targets_count, blocked_subnets_via_supernet>>
    /\ idx' = IF idx = Len(supernets_to_block) THEN 1 ELSE idx + 1
    /\ pc' = IF idx = Len(supernets_to_block) THEN AfterSupernets ELSE "supernets"
    /\ UNCHANGED <<rpm_threshold, whitelist, threats>>
    /\ UNCHANGED readerVars
    /\ UNCHANGED analyzeVars
    /\ UNCHANGED <<blockable_threats, supernets_to_block, top, block>>

IndividualTargetMutant(threat) ==
    IF isinstance_IPv4Network(threat.id) THEN supernet16(threat.id) ELSE threat.id

\* Lines 339-353: the target of an individual block: the threat's id, or the
\* single member address when the threat counts one IP and has details.
IndividualTarget(threat) ==
    IF /\ HasKey(threat, "ip_count") /\ threat.ip_count = 1
       /\ HasKey(threat, "details") /\ threat.details # <<>>
    THEN threat.details[1].ip
    ELSE threat.id

IsSubmittedIndividuallyMutant(threat, covered) == threat.should_block

\* Lines 332-338: the threat is submitted in the individual step.
IsSubmittedIndividually(threat, covered) ==
    /\ threat.id \notin covered
    /\ threat.should_block

\* Lines 328-366: one iteration of the loop over the top N threats.
ProcessIndividual ==
    /\ pc = "individual"
    /\ idx <= Len(top_threats_to_consider)
    /\ LET threat == top_threats_to_consider[idx]
       IN IF IsSubmittedIndividually(threat, blocked_subnets_via_supernet)
          THEN \E success \in BOOLEAN :
                  /\ submitted' = Append(submitted,
                        [target |-> IndividualTarget(threat), success |-> success,
                         step |-> "individual"])
                  /\ blocked_targets_count' = CountAfter(blocked_targets_count, success)
          ELSE UNCHANGED <<submitted, blocked_targets_count>>
    /\ idx' = idx + 1
    /\ pc' = IF idx = Len(top_threats_to_consider) THEN "report" ELSE "individual"
    /\ UNCHANGED <<rpm_threshold, whitelist, threats>>
    /\ UNCHANGED readerVars
    /\ UNCHANGED analyzeVars
    /\ UNCHANGED <<blockable_threats, supernets_to_block,
                   blocked_subnets_via_supernet, top, block>>

\* The keys of an ip_info dict (threat_analyzer.py 218-227), the entries of
\* a subnet threat's details.
IpInfoKeys == {"ip", "rpm", "total_requests", "time_span", "has_suspicious_ua",
               "suspicious_ua", "danger_score", "is_suspicious_by_rpm"}

\* Lines 390-393 and 418: the keys the report reads from a threat with [].
ReportThreatReads == {"id", "total_requests", "ip_count", "details"}
\* Line 421: the keys the report reads from each entry of threat['details'].
ReportDetailReads == {"ip", "total_requests", "danger_score", "avg_rpm", "max_rpm"}

\* The report of one threat raises KeyError: a key read from the threat is
\* missing, or the threat has details and a key read from them is missing.
ThreatReportRaises(threat) ==
    \/ \E key \in ReportThreatReads : ~HasKey(threat, key)
    \/ threat.details # <<>> /\ \E key \in ReportDetailReads : key \notin IpInfoKeys

\* Lines 386-423: the report of the first top_count threats raises KeyError.
ReportReadsMissingKey ==
    \E k \in 1..Min(top, Len(threats)) : ThreatReportRaises(threats[k])

\* Lines 376-438: reporting and the final summary.
Report ==
    /\ pc = "report"
    /\ pc' = IF ReportReadsMissingKey THEN "KeyError" ELSE "done"
    /\ UNCHANGED <<rpm_threshold, whitelist, threats>>
    /\ UNCHANGED readerVars
    /\ UNCHANGED analyzeVars
    /\ UNCHANGED blockVars

Next ==
    \/ AnalyzeLogFile
    \/ IdentifyThreats
    \/ NoThreats
    \/ ApplyStrategy
    \/ BlockingDisabled
    \/ GroupSupernets
    \/ ProcessSupernet
    \/ ProcessIndividual
    \/ Report

Spec == Init /\ [][Next]_vars

-----------------------------------------------------------------------------
(* _read_lines_reverse (threat_analyzer.py 20-55): the generator that      *)
(* reads the file block by block from its end.                             *)

\* Longest file and largest block size of the model.
MaxFileSize == 4
MaxBufSize == 3

\* Bytes of the file: an ASCII letter, the newline, and the lead and the
\* continuation byte of a two-byte UTF-8 character (0xC3 0xA9).
Bytes == {"a", "n", "L", "T"}

\* buffer.decode('utf-8', errors='ignore'): a lead byte with its continuation
\* byte is one character "e"; a lead byte without continuation and a
\* continuation byte without lead are dropped.
RECURSIVE decode_ignore(_)
decode_ignore(buffer) ==
    IF buffer = <<>> THEN <<>>
    ELSE IF Head(buffer) = "L" /\ Len(buffer) >= 2 /\ buffer[2] = "T"
         THEN <<"e">> \o decode_ignore(Tail(Tail(buffer)))
    ELSE IF Head(buffer) \in {"L", "T"} THEN decode_ignore(Tail(buffer))
    ELSE <<Head(buffer)>> \o decode_ignore(Tail(buffer))

\* buffer.decode('utf-8') does not raise UnicodeDecodeError.
RECURSIVE Decodable(_)
Decodable(buffer) ==
    IF buffer = <<>> THEN TRUE
    ELSE IF Head(buffer) = "L"
         THEN Len(buffer) >= 2 /\ buffer[2] = "T" /\ Decodable(Tail(Tail(buffer)))
    ELSE IF Head(buffer) = "T" THEN FALSE
    ELSE Decodable(Tail(buffer))

\* Lines 32-36: strict decoding, and lossy decoding when it raises; the two
\* agree on a decodable buffer.
buffer_str_of(buffer) == decode_ignore(buffer)

\* Position of the first newline of s, 0 without one.
RECURSIVE FirstNewline(_, _)
FirstNewline(s, k) ==
    IF k > Len(s) THEN 0 ELSE IF s[k] = "n" THEN k ELSE FirstNewline(s, k + 1)

\* str.splitlines(True): the lines with their line endings.
RECURSIVE splitlines(_)
splitlines(s) ==
    IF s = <<>> THEN <<>>
    ELSE IF FirstNewline(s, 1) = 0 THEN <<s>>
    ELSE <<SubSeq(s, 1, FirstNewline(s, 1))>>
             \o splitlines(SubSeq(s, FirstNewline(s, 1) + 1, Len(s)))

Reverse(s) == [k \in 1..Len(s) |-> s[Len(s) + 1 - k]]

\* Lines 28-30: the block read in this iteration.
buffer_of(file, off, remaining, size) ==
    SubSeq(file, Len(file) - Min(Len(file), off + size) + 1,
                 Len(file) - Min(Len(file), off + size) + Min(remaining, size))

\* Lines 40-44: lines[-1] += segment when the block does not end in a newline.
lines_with_segment(lines, str, seg) ==
    IF seg # NoSegment /\ Last(str) # "n"
    THEN [lines EXCEPT ![Len(lines)] = @ \o seg]
    ELSE lines

\* Lines 45-52: what one iteration yields: the segment, when the block ends
\* in a newline, and then lines[len-1] down to lines[1].
yields_of(lines, str, seg) ==
    (IF seg # NoSegment /\ Last(str) = "n" THEN <<seg>> ELSE <<>>)
        \o Reverse(Tail(lines_with_segment(lines, str, seg)))

\* Lines 42 and 48: buffer_str[-1] on an empty string, or lines[0] on an
\* empty list, raises IndexError.
RaisesIndexError(str, seg) ==
    \/ seg # NoSegment /\ str = <<>>
    \/ splitlines(str) = <<>>

\* Lines 22-26: the call of the generator on some file with some block size.
InitReader ==
    /\ pc = "reading"
    /\ file_bytes \in SeqsUpTo(Bytes, MaxFileSize)
    /\ buf_size \in 1..MaxBufSize
    /\ remaining_size = Len(file_bytes)
    /\ offset = 0
    /\ segment = NoSegment
    /\ yielded = <<>>
    /\ rpm_threshold = DefaultRpmThreshold
    /\ whitelist = {}
    /\ log_lines = <<>>
    /\ start_date = NoStart
    /\ ip_data = <<>>
    /\ total_processed = 0
    /\ threats = <<>>
    /\ top = 0
    /\ block = FALSE
    /\ blockable_threats = <<>>
    /\ supernets_to_block = <<>>
    /\ blocked_subnets_via_supernet = {}
    /\ blocked_targets_count = 0
    /\ submitted = <<>>
    /\ idx = 0

\* Lines 27-52: one iteration of the while loop.
ReadBlock ==
    /\ pc = "reading"
    /\ remaining_size > 0
    /\ LET buffer == buffer_of(file_bytes, offset, remaining_size, buf_size)
           str == buffer_str_of(buffer)
           lines == splitlines(str)
       IN /\ offset' = Min(Len(file_bytes), offset + buf_size)
          /\ remaining_size' = remaining_size - buf_size
          /\ IF RaisesIndexError(str, segment)
             THEN /\ pc' = "IndexError"
                  /\ UNCHANGED <<segment, yielded>>
             ELSE /\ pc' = "reading"
                  /\ segment' = lines_with_segment(lines, str, segment)[1]
                  /\ yielded' = yielded \o yields_of(lines, str, segment)
    /\ UNCHANGED <<file_bytes, buf_size>>
    /\ UNCHANGED <<rpm_threshold, whitelist, threats>>
    /\ UNCHANGED analyzeVars
    /\ UNCHANGED blockVars

\* Lines 53-55: after the loop the last segment is yielded.
ReaderEnd ==
    /\ pc = "reading"
    /\ remaining_size <= 0
    /\ yielded' = IF segment # NoSegment THEN Append(yielded, segment) ELSE yielded
    /\ pc' = "exhausted"
    /\ UNCHANGED <<file_bytes, buf_size, remaining_size, offset, segment>>
    /\ UNCHANGED <<rpm_threshold, whitelist, threats>>
    /\ UNCHANGED analyzeVars
    /\ UNCHANGED blockVars

NextReader == ReadBlock \/ ReaderEnd

SpecReader == InitReader /\ [][NextReader]_vars

-----------------------------------------------------------------------------
(* Properties of _read_lines_reverse (checked under SpecReader).           *)

\* The lines of the file, from the last to the first.
FileLinesReversed(file) == Reverse(splitlines(decode_ignore(file)))

\* C11 as stated: on every file of valid UTF-8 and with every block size the
\* reader ends normally and has yielded exactly the lines of the file, each
\* once, from the last to the first.
C11_ReverseReaderExact ==
    (pc # "reading" /\ Decodable(file_bytes)) =>
        /\ pc = "exhausted"
        /\ yielded = FileLinesReversed(file_bytes)

-----------------------------------------------------------------------------
(* Properties of the blocking steps of main (checked under Spec).          *)

\* The run is past both blocking loops.
BlockingComplete == block /\ pc \in {"report", "done", "KeyError"}
\* The run is past the loop over the /16 supernets.
SupernetsComplete == block /\ pc \in {"individual", "report", "done", "KeyError"}
\* The threats carry the strategy's score and decision.
Scored == pc \notin {"start", "analyzed", "identified", "exit0", "exit1"}

Supernets16 == {supernet16(Prefixes[k]) : k \in {j \in DOMAIN Prefixes : Prefixes[j].v = 4}}

\* The blockable IPv4 /24 Subnet groups inside /16 sn, as positions of the
\* score-sorted collection.
BlockableChildren(sn) ==
    {k \in 1..Len(threats) :
        /\ threats[k].should_block
        /\ threats[k].type = "subnet"
        /\ threats[k].id.v = 4 /\ threats[k].id.len = 24
        /\ supernet16(threats[k].id) = sn}

SubmissionsOf(target) == {k \in DOMAIN submitted : submitted[k].target = target}
AcceptedSubmissions == {k \in DOMAIN submitted : submitted[k].success}
InTopN(k) == k <= Min(top, Len(threats))

\* C1 as stated: with blocking enabled, whatever the collaborator answers, a
\* /16 with two or more blockable /24 Subnet groups is submitted exactly once
\* and none of those /24s is submitted.
C1_SupernetReplacesChildrenAlways ==
    BlockingComplete =>
        \A sn \in Supernets16 :
            Cardinality(BlockableChildren(sn)) >= 2 =>
                /\ Cardinality(SubmissionsOf(sn)) = 1
                /\ \A k \in BlockableChildren(sn) : SubmissionsOf(threats[k].id) = {}

\* C1 amended: with blocking enabled, a /16 with two or more blockable /24
\* Subnet groups is submitted exactly once; when the collaborator accepts
\* that submission none of those /24s is submitted in the run, and when it
\* rejects it each of those /24s is submitted individually exactly when it
\* is among the first N entries of the score-sorted collection.
C1_SupernetReplacesChildrenWhenAccepted ==
    Scored =>
        \A sn \in Supernets16 :
            Cardinality(BlockableChildren(sn)) >= 2 =>
                /\ Cardinality(SubmissionsOf(sn)) <= 1
                /\ SupernetsComplete => Cardinality(SubmissionsOf(sn)) = 1
                /\ (\E j \in SubmissionsOf(sn) : submitted[j].success) =>
                      \A k \in BlockableChildren(sn) : SubmissionsOf(threats[k].id) = {}
                /\ (BlockingComplete /\ \E j \in SubmissionsOf(sn) : ~submitted[j].success) =>
                      \A k \in BlockableChildren(sn) :
                          (SubmissionsOf(threats[k].id) # {}) <=> InTopN(k)

\* Witness of C1: the run has ended, a /16 with two blockable /24s was
\* accepted, and both /24s were inside the top-N window.
C1_Witness ==
    /\ block /\ pc \in {"done", "KeyError"}
    /\ \E sn \in Supernets16 :
          /\ Cardinality(BlockableChildren(sn)) >= 2
          /\ \A k \in BlockableChildren(sn) : InTopN(k)
          /\ \E j \in SubmissionsOf(sn) : submitted[j].success

\* C2: a /16 with exactly one blockable /24 Subnet group is never submitted,
\* and with blocking enabled that /24 is submitted individually exactly when
\* it is among the first N entries of the score-sorted collection.
C2_LoneChildNeverPromoted ==
    Scored =>
        \A sn \in Supernets16 :
            Cardinality(BlockableChildren(sn)) = 1 =>
                /\ SubmissionsOf(sn) = {}
                /\ BlockingComplete =>
                      \A k \in BlockableChildren(sn) :
                          (SubmissionsOf(threats[k].id) # {}) <=> InTopN(k)

\* Witness of C2: blocking has completed and the only blockable /24 of a /16
\* was submitted individually from inside the top-N window, while another
\* /16's lone blockable /24 outside the window was not.
C2_Witness ==
    /\ BlockingComplete
    /\ \E sn \in Supernets16 :
          /\ Cardinality(BlockableChildren(sn)) = 1
          /\ \A k \in BlockableChildren(sn) :
                InTopN(k) /\ SubmissionsOf(threats[k].id) # {}
    /\ \E sn \in Supernets16 :
          /\ Cardinality(BlockableChildren(sn)) = 1
          /\ \A k \in BlockableChildren(sn) : ~InTopN(k)

\* C3: a prefix in the covered set is never the target of a submission of
\* the individual top-N step.
C3_CoveredNeverSubmitted ==
    \A j \in DOMAIN submitted :
        submitted[j].step = "individual" =>
            submitted[j].target \notin blocked_subnets_via_supernet

\* Witness of C3: the individual loop has just passed a blockable top-N entry
\* whose prefix is covered.
C3_Witness ==
    /\ pc = "individual"
    /\ idx = 2
    /\ threats[1].should_block
    /\ threats[1].id \in blocked_subnets_via_supernet

\* C4 as stated: no address of ip_data is whitelisted, and no submitted
\* target (address, /24, /64 or /16) contains a whitelisted address.
C4_WhitelistedNeverBlocked ==
    /\ \A k \in DOMAIN ip_data : ~is_ip_in_whitelist(ip_data[k].ip, whitelist)
    /\ \A j \in DOMAIN submitted :
          \A ip \in Addresses :
              is_ip_in_whitelist(ip, whitelist) => ~Covers(submitted[j].target, ip)

\* C5: a rejected submission does not end the run: once blocking is complete
\* every /16 candidate and every uncovered blockable top-N entry has been
\* submitted, and the count is the number of accepted submissions.
C5_RejectionIsolated ==
    /\ blocked_targets_count = Cardinality(AcceptedSubmissions)
    /\ BlockingComplete =>
          /\ \A m \in DOMAIN supernets_to_block :
                Len(supernets_to_block[m].contained) >= 2 =>
                    \E j \in SubmissionsOf(supernets_to_block[m].supernet) :
                        submitted[j].step = "supernet"
          /\ \A k \in 1..Len(threats) :
                (/\ InTopN(k)
                 /\ threats[k].should_block
                 /\ threats[k].id \notin blocked_subnets_via_supernet) =>
                    \E j \in SubmissionsOf(threats[k].id) :
                        submitted[j].step = "individual"

\* Witness of C5: blocking has completed, the collaborator rejected a
\* submission and accepted a later one.
C5_Witness ==
    /\ BlockingComplete
    /\ \E i, j \in DOMAIN submitted :
          i < j /\ ~submitted[i].success /\ submitted[j].success

\* C6: no target is passed to the collaborator twice in a run.
C6_AtMostOnePerTarget ==
    \A i, j \in DOMAIN submitted :
        submitted[i].target = submitted[j].target => i = j

\* Witness of C6: a /16 was rejected and its two /24s were then submitted
\* individually, one of them rejected as well.
C6_Witness ==
    /\ BlockingComplete
    /\ Len(submitted) = 3
    /\ submitted[1].step = "supernet" /\ ~submitted[1].success
    /\ submitted[2].step = "individual" /\ ~submitted[2].success
    /\ submitted[3].step = "individual"

-----------------------------------------------------------------------------
(* Properties of analyze_log_file and identify_threats (checked under      *)
(* SpecAnalyze).                                                           *)

SetMax(S) == CHOOSE x \in S : \A y \in S : y <= x
SetMin(S) == CHOOSE x \in S : \A y \in S : x <= y

\* Seconds between the earliest and the latest of the request times.
SpanOf(times) == IF times = <<>> THEN 0 ELSE SetMax(Range(times)) - SetMin(Range(times))

\* The rate count / (span / 60) is above the threshold.
RateAbove(times, threshold) ==
    Len(times) >= 2 /\ SpanOf(times) > 0 /\ Len(times) * 60 > threshold * SpanOf(times)

\* The suspicious addresses of ip_data.
SuspiciousAddresses ==
    {ip_data[k].ip : k \in {j \in DOMAIN ip_data : RateAbove(ip_data[j].times, rpm_threshold)}}

\* How often address ip is a member of a ThreatGroup.
MemberCount(ip) ==
    Cardinality({<<k, m>> \in (DOMAIN threats) \X (0..MaxLines) :
        \/ threats[k].type = "ip" /\ m = 0 /\ threats[k].id = ip
        \/ /\ threats[k].type = "subnet"
           /\ m \in DOMAIN threats[k].details
           /\ threats[k].details[m].ip = ip})

\* The member addresses of all ThreatGroups.
AllMembers ==
    UNION {IF threats[k].type = "ip" THEN {threats[k].id}
           ELSE {threats[k].details[m].ip : m \in DOMAIN threats[k].details}
           : k \in DOMAIN threats}

\* C7 as stated: after identify_threats every suspicious address is a member
\* of exactly one ThreatGroup and the members are the suspicious addresses,
\* also for an address that has no prefix.
C7_SuspiciousPartitioned ==
    pc = "identified" =>
        /\ \A ip \in SuspiciousAddresses : MemberCount(ip) = 1
        /\ AllMembers = SuspiciousAddresses

\* The suspicious addresses inside prefix p.
SuspiciousIn(p) == {ip \in SuspiciousAddresses : get_subnet(ip) = p}
LogPrefixes == {get_subnet(ip) : ip \in LogIps} \ {None}

\* C8: a prefix with exactly one suspicious member yields a Single group
\* identified by that address and no Subnet group; a prefix with two or more
\* yields exactly one Subnet group identified by the prefix, whose members
\* are the suspicious addresses of the prefix.
C8_LoneMemberIsSingle ==
    pc = "identified" =>
        \A p \in LogPrefixes :
            /\ Cardinality(SuspiciousIn(p)) = 1 =>
                  /\ \A k \in DOMAIN threats : threats[k].id # p
                  /\ \A ip \in SuspiciousIn(p) :
                        Cardinality({k \in DOMAIN threats :
                            threats[k].type = "ip" /\ threats[k].id = ip}) = 1
            /\ Cardinality(SuspiciousIn(p)) >= 2 =>
                  /\ Cardinality({k \in DOMAIN threats : threats[k].id = p}) = 1
                  /\ \A k \in DOMAIN threats :
                        threats[k].id = p =>
                            /\ threats[k].type = "subnet"
                            /\ {threats[k].details[m].ip : m \in DOMAIN threats[k].details}
                                   = SuspiciousIn(p)
                  /\ \A k \in DOMAIN threats : threats[k].id \notin SuspiciousIn(p)

\* Witness of C8: identify_threats has run on a prefix with one suspicious
\* address and a second, non-suspicious address.
C8_Witness ==
    /\ pc = "identified"
    /\ \E p \in LogPrefixes :
          /\ Cardinality(SuspiciousIn(p)) = 1
          /\ \E k \in DOMAIN ip_data :
                /\ get_subnet(ip_data[k].ip) = p
                /\ ip_data[k].ip \notin SuspiciousAddresses
          /\ \E k \in DOMAIN threats : threats[k].id \in SuspiciousIn(p)

\* The record has fewer than 2 timestamps, or its first and last coincide.
NoRate(times) == Len(times) < 2 \/ SpanOf(times) = 0

\* C9: an address with fewer than 2 timestamps or with span 0 has rate 0, is
\* not suspicious and is a member of no ThreatGroup, for every threshold >= 0.
C9_NoSpanNeverSuspicious ==
    \A k \in DOMAIN ip_data :
        NoRate(ip_data[k].times) =>
            /\ rpm(ip_data[k].times)[1] = 0
            /\ ~is_suspicious(ip_data[k].times, rpm_threshold)
            /\ pc = "identified" => ip_data[k].ip \notin AllMembers

\* Witness of C9: identify_threats has run with threshold 0 on an address
\* with two requests in the same second, and found another address suspicious.
C9_Witness ==
    /\ pc = "identified"
    /\ rpm_threshold = 0
    /\ threats # <<>>
    /\ \E k \in DOMAIN ip_data :
          Len(ip_data[k].times) = 2 /\ SpanOf(ip_data[k].times) = 0

\* The parseable lines of the file are non-decreasing in time.
TimeOrdered(lines) ==
    \A i, j \in DOMAIN lines :
        (i < j /\ lines[i].kind = "ok" /\ lines[j].kind = "ok") => lines[i].t <= lines[j].t

\* Forward scanning restricted to the entries at or after the start instant.
ForwardFiltered ==
    forward_scan(SelectSeq(log_lines, LAMBDA l : l.kind = "ok" => l.t >= start_date.t),
                 whitelist, EmptyScan)

\* Both hold the same addresses and, for each, the same timestamps.
SameRecords(d1, d2) ==
    /\ {d1[k].ip : k \in DOMAIN d1} = {d2[k].ip : k \in DOMAIN d2}
    /\ \A i \in DOMAIN d1 : \A j \in DOMAIN d2 :
          d1[i].ip = d2[j].ip => sorted(d1[i].times) = sorted(d2[j].times)

\* C10 as stated: on a time-ordered source, analyze_log_file with a start
\* instant completes with the records and the processed count of a forward
\* scan restricted to the entries at or after that instant.
C10_ReverseEqualsForwardFiltered ==
    (pc # "start" /\ start_date.given /\ TimeOrdered(log_lines)) =>
        /\ pc # "exit1"
        /\ total_processed = ForwardFiltered.total_processed
        /\ SameRecords(ip_data, ForwardFiltered.ip_data)

\* The line is one the scan skips: the parser or strptime rejects it.
Rejected(line) == parse_fails(line) \/ strptime_fails(line)

\* The log without the lines the scan has to skip.
WellFormedLines == SelectSeq(log_lines, LAMBDA l : ~Rejected(l))

\* Line j is scanned after line i: behind it in a forward scan, before it in
\* a reverse scan.
ScannedAfter(i, j) == IF start_date.given THEN j < i ELSE j > i

\* The entry of a well-formed line is in the record of its address.
IsIngested(line) ==
    \E k \in DOMAIN ip_data : ip_data[k].ip = line.ip /\ line.t \in Range(ip_data[k].times)

\* C12 as stated: in both directions the scan leaves the records and the
\* count of the same log without its rejected lines, and on a time-ordered
\* log every well-formed, in-window, not whitelisted line scanned after a
\* rejected line is ingested.
C12_RejectedLinesSkipped ==
    pc # "start" =>
        /\ ip_data = analyze_log_file(WellFormedLines, start_date, whitelist).ip_data
        /\ total_processed =
               analyze_log_file(WellFormedLines, start_date, whitelist).total_processed
        /\ TimeOrdered(log_lines) =>
              \A i, j \in DOMAIN log_lines :
                  (/\ Rejected(log_lines[i])
                   /\ ScannedAfter(i, j)
                   /\ ~Rejected(log_lines[j])
                   /\ start_date.given => log_lines[j].t >= start_date.t
                   /\ ~is_ip_in_whitelist(log_lines[j].ip, whitelist))
                      => IsIngested(log_lines[j])

-----------------------------------------------------------------------------
(* Properties of the reverse reader on undecodable blocks (checked under   *)
(* SpecReader).                                                            *)

\* The bytes of the j-th block from the end of the file.
BlockBytes(j) ==
    SubSeq(file_bytes,
           IF Len(file_bytes) - j * buf_size + 1 < 1 THEN 1
           ELSE Len(file_bytes) - j * buf_size + 1,
           Len(file_bytes) - (j - 1) * buf_size)

\* The block, counted from the end of the file, that holds byte position p.
BlockOf(p) == ((Len(file_bytes) - p) \div buf_size) + 1

\* The lines of the file as ranges <<first, last>> of byte positions.
LineRanges ==
    {r \in (1..Len(file_bytes)) \X (1..Len(file_bytes)) :
        /\ r[1] <= r[2]
        /\ r[1] = 1 \/ file_bytes[r[1] - 1] = "n"
        /\ r[2] = Len(file_bytes) \/ file_bytes[r[2]] = "n"
        /\ \A p \in r[1]..(r[2] - 1) : file_bytes[p] # "n"}

\* Every block that holds a byte of the line decodes without error.
InDecodableBlocks(r) ==
    \A j \in BlockOf(r[2])..BlockOf(r[1]) : Decodable(BlockBytes(j))

\* Once the reader is exhausted, every line that lies wholly in decodable
\* blocks was yielded.
DecodableLinesYielded ==
    pc = "exhausted" =>
        \A r \in LineRanges :
            InDecodableBlocks(r) =>
                decode_ignore(SubSeq(file_bytes, r[1], r[2])) \in Range(yielded)

\* C13 as stated: the reader raises on no block content, also not on a block
\* of undecodable bytes only, and every line that lies wholly in decodable
\* blocks is yielded.
C13_LossyDecodingRecovers ==
    /\ pc # "IndexError"
    /\ DecodableLinesYielded

-----------------------------------------------------------------------------
(* Properties of the whole run of main (checked under Spec).               *)

GroupSize(threat) == IF threat.type = "ip" THEN 1 ELSE Len(threat.details)
FirstMember(threat) == IF threat.type = "ip" THEN threat.id ELSE threat.details[1].ip

\* The BlockTarget of a group: its member address when it has exactly one
\* member, the prefix of its members otherwise.
TargetOfGroup(threat) ==
    IF GroupSize(threat) = 1 THEN FirstMember(threat) ELSE get_subnet(FirstMember(threat))

IndividualSubmissions == {j \in DOMAIN submitted : submitted[j].step = "individual"}

\* The collection is sorted descending by strategy score.
SortedByStrategyScore ==
    \A i, j \in DOMAIN threats :
        i < j => threats[i].strategy_score >= threats[j].strategy_score

\* C15: the scored collection is sorted descending by strategy score; once
\* blocking is complete a group has an individual submission exactly when it
\* is among the first N entries, blockable and not covered; the target is
\* the member address of a one-member group and the prefix otherwise; there
\* are at most N individual submissions.
C15_IndividualSelection ==
    /\ Scored => SortedByStrategyScore
    /\ Cardinality(IndividualSubmissions) <= top
    /\ \A j \in DOMAIN submitted :
          submitted[j].step = "individual" =>
              \E k \in DOMAIN threats : submitted[j].target = TargetOfGroup(threats[k])
    /\ BlockingComplete =>
          \A k \in DOMAIN threats :
              (\E j \in DOMAIN submitted :
                    /\ submitted[j].step = "individual"
                    /\ submitted[j].target = TargetOfGroup(threats[k]))
                 <=> (/\ InTopN(k)
                      /\ threats[k].should_block
                      /\ threats[k].id \notin blocked_subnets_via_supernet)

\* Witness of C15: blocking is complete with N = 2; a one-member group was
\* submitted by its address and a larger group by its prefix, and a third
\* blockable group outside the first N entries was not submitted.
C15_Witness ==
    /\ BlockingComplete
    /\ top = 2
    /\ \E j \in IndividualSubmissions : submitted[j].target.len \in {32, 128}
    /\ \E j \in IndividualSubmissions : submitted[j].target.len \in {24, 64}
    /\ \E k \in DOMAIN threats :
          /\ ~InTopN(k)
          /\ threats[k].should_block
          /\ threats[k].id \notin blocked_subnets_via_supernet

-----------------------------------------------------------------------------
(* The start instant main derives (checked under SpecAnalyze).             *)

\* The log holds a line the parser and strptime accept.
HasParseableEntry == \E k \in DOMAIN log_lines : ~Rejected(log_lines[k])

\* The entries at or after the start instant, whitelisted ones left out.
InWindowEntries ==
    {k \in DOMAIN log_lines :
        /\ ~Rejected(log_lines[k])
        /\ log_lines[k].t >= start_date.t
        /\ ~is_ip_in_whitelist(log_lines[k].ip, whitelist)}

\* C16 as stated: with a timezone-aware start instant and a parseable entry
\* in the source, analyze_log_file raises no error; on a time-ordered source
\* it ingests the entries at or after the start instant and returns their
\* count, and with a count above 0 the run proceeds to identify_threats.
C16_AwareStartCompared ==
    (pc # "start" /\ start_date.given /\ start_date.aware /\ HasParseableEntry) =>
        /\ pc # "exit1"
        /\ TimeOrdered(log_lines) =>
              /\ total_processed = Cardinality(InWindowEntries)
              /\ \A k \in InWindowEntries : IsIngested(log_lines[k])
              /\ total_processed > 0 => pc \in {"analyzed", "identified"}

-----------------------------------------------------------------------------
(* Individual targets and blocked supernets (checked under Spec).          *)

\* The address or network x lies inside the /16 network sn.
InsideSupernet(x, sn) == x.v = 4 /\ x.len >= 16 /\ Truncate(x, 16) = sn

\* C17 as stated: no target of the individual top-N step, address or
\* prefix, lies inside a /16 that the collaborator accepted earlier in the
\* run.
C17_NothingInsideBlockedSupernet ==
    \A i, j \in DOMAIN submitted :
        (/\ submitted[i].step = "supernet"
         /\ submitted[i].success
         /\ submitted[j].step = "individual")
            => ~InsideSupernet(submitted[j].target, submitted[i].target)

-----------------------------------------------------------------------------
(* The fields main reads from a threat (checked under Spec).               *)

\* C18 as stated: every ThreatGroup carries every field main reads after
\* scoring, and a run with a non-empty threat collection ends normally,
\* never with a KeyError.
C18_ReportFieldsPresent ==
    /\ pc \notin {"start", "analyzed"} =>
          \A k \in DOMAIN threats :
              \A key \in ReportThreatReads : HasKey(threats[k], key)
    /\ pc # "KeyError"

====
